---- MODULE Spec2Model ----
(***************************************************************************)
(* Model of the Shahbaz AI backend (src/main.py, src/schemas.py): the      *)
(* reply generator, the tone wrapper, the suggestion bank, the chat        *)
(* handler with its three store inserts, and the image handler with its    *)
(* best-effort audit log.                                                  *)
(*                                                                         *)
(* A Python str that the code processes as text is a sequence of           *)
(* characters; a character is a one-character TLA+ string, or "U+XXXX"     *)
(* for a code point outside ASCII.  Values that the code only passes       *)
(* around (modes, roles, collection names, document ids, suggestions,      *)
(* styles) are TLA+ strings.  An Optional value is <<>> for None and       *)
(* <<v>> for the value v.                                                  *)
(***************************************************************************)
EXTENDS Integers, Sequences, FiniteSets, TLC

VARIABLES
    chatsession,   \* the chatsession collection, in insertion order
    chatmessage,   \* the chatmessage collection, in insertion order
    imagerequest,  \* the imagerequest collection, in insertion order
    calls,         \* the chat calls: position in chat(), locals, response
    log,           \* history: for each collection, the call that inserted each document
    text,          \* the reply generator / tone wrapper applied to one input
    img            \* the image calls made: request, whether logged, response

vars == <<chatsession, chatmessage, imagerequest, calls, log, text, img>>

(***************************************************************************)
(* Bounds of the model.                                                    *)
(***************************************************************************)
MaxCalls == 2

MaxWords == 42

MaxRun == 82

MaxImageCalls == 1

(***************************************************************************)
(* Program constants.                                                      *)
(***************************************************************************)
SummaryLimit == 40

WritingTitleLimit == 60

ImageTitleLimit == 80

SuggestionLimit == 3

(***************************************************************************)
(* Optional values.                                                        *)
(***************************************************************************)
None == <<>>

Some(v) == <<v>>

\* Python's "x or default" on an Optional[str]: None and "" are falsy.
Falsy(x) == x = None \/ x = Some("")

OrElse(x, default) == IF Falsy(x) THEN default ELSE x[1]

(***************************************************************************)
(* Characters and the str methods the code uses.                           *)
(***************************************************************************)
UpperLetters ==
    <<"A","B","C","D","E","F","G","H","I","J","K","L","M","N","O","P","Q","R","S","T","U","V","W","X",
      "Y","Z">>

LowerLetters ==
    <<"a","b","c","d","e","f","g","h","i","j","k","l","m","n","o","p","q","r","s","t","u","v","w","x",
      "y","z">>

Whitespace == {" ", "\t", "\n", "\r"}

\* str.lower() on one character.
LowerChar(c) ==
    IF \E i \in 1..Len(UpperLetters) : UpperLetters[i] = c
    THEN LowerLetters[CHOOSE i \in 1..Len(UpperLetters) : UpperLetters[i] = c]
    ELSE c

Lower(s) == [i \in 1..Len(s) |-> LowerChar(s[i])]

\* str.strip(): from the first to the last non-whitespace character.
Strip(s) ==
    LET solid == {i \in 1..Len(s) : s[i] \notin Whitespace}
    IN  IF solid = {} THEN <<>>
        ELSE SubSeq(s, CHOOSE i \in solid : \A j \in solid : i <= j,
                       CHOOSE i \in solid : \A j \in solid : j <= i)

\* s[:n]
Prefix(s, n) == SubSeq(s, 1, IF Len(s) < n THEN Len(s) ELSE n)

\* str.split(): the maximal runs of non-whitespace characters, in order.
Split(s) ==
    LET starts == {i \in 1..Len(s) :
                      s[i] \notin Whitespace /\ (i = 1 \/ s[i - 1] \in Whitespace)}
        ends == {i \in 1..Len(s) :
                      s[i] \notin Whitespace /\ (i = Len(s) \/ s[i + 1] \in Whitespace)}
        kth(S, k) == CHOOSE i \in S : Cardinality({j \in S : j <= i}) = k
    IN  [k \in 1..Cardinality(starts) |-> SubSeq(s, kth(starts, k), kth(ends, k))]

\* sep.join(words)
RECURSIVE Join(_, _)
Join(words, sep) ==
    IF words = <<>> THEN <<>>
    ELSE IF Len(words) = 1 THEN words[1]
    ELSE LET h == Len(words) \div 2
         IN  Join(SubSeq(words, 1, h), sep) \o sep
                 \o Join(SubSeq(words, h + 1, Len(words)), sep)

(***************************************************************************)
(* Enumerations (ChatRequest, schemas.py).                                 *)
(***************************************************************************)
Modes == {"qa", "writing", "translation", "summary", "student", "professional", "fun"}

Languages == {"en", "ur", "hi"}

Roles == {"user", "assistant", "system"}

LanguageText(language) ==
    CASE language = "en" -> <<"e","n">>
      [] language = "ur" -> <<"u","r">>
      [] language = "hi" -> <<"h","i">>

(***************************************************************************)
(* _tone_wrap                                                              *)
(***************************************************************************)
StudentHeader ==
    <<"S","t","u","d","e","n","t"," ","M","o","d","e",":","\n","-"," ","S","i","m","p","l","e"," ",
      "e","x","p","l","a","n","a","t","i","o","n","\n","-"," ","K","e","y"," ","p","o","i","n","t",
      "s","\n","-"," ","S","h","o","r","t"," ","e","x","a","m","p","l","e","\n","\n">>

ProfessionalHeader ==
    <<"P","r","o","f","e","s","s","i","o","n","a","l"," ","M","o","d","e",":","\n","-"," ","C","o",
      "n","c","i","s","e","\n","-"," ","A","c","t","i","o","n","a","b","l","e","\n","-"," ","B","u",
      "s","i","n","e","s","s"," ","t","o","n","e","\n","\n">>

FunHeader ==
    <<"F","u","n"," ","M","o","d","e"," ","U+1F389",":","\n">>

FunSignOff ==
    <<"\n","(","p","e","p","p","e","r","e","d"," ","w","i","t","h"," ","a"," ","f","r","i","e","n",
      "d","l","y",","," ","u","p","b","e","a","t"," ","v","i","b","e",")">>

\* The fun branch with the header line dropped.
ToneWrapFunSuffixOnly(t, mode) ==
    IF mode = "student" THEN StudentHeader \o t
    ELSE IF mode = "professional" THEN ProfessionalHeader \o t
    ELSE IF mode = "fun" THEN t \o FunSignOff
    ELSE t

ToneWrap(t, mode) ==
    IF mode = "student" THEN StudentHeader \o t
    ELSE IF mode = "professional" THEN ProfessionalHeader \o t
    ELSE IF mode = "fun" THEN FunHeader \o t \o FunSignOff
    ELSE t

(***************************************************************************)
(* _generate_reply                                                         *)
(***************************************************************************)
KeyHello ==
    <<"h","e","l","l","o">>

KeyHowAreYou ==
    <<"h","o","w"," ","a","r","e"," ","y","o","u">>

HelloUr ==
    <<"U+0633","U+0644","U+0627","U+0645">>

HelloHi ==
    <<"U+0928","U+092E","U+0938","U+094D","U+0924","U+0947">>

HowAreYouUr ==
    <<"U+0622","U+067E"," ","U+06A9","U+06CC","U+0633","U+06D2"," ","U+06C1","U+06CC","U+06BA">>

HowAreYouHi ==
    <<"U+0906","U+092A"," ","U+0915","U+0948","U+0938","U+0947"," ","U+0939","U+0948","U+0902">>

TranslationOpen ==
    <<"T","r","a","n","s","l","a","t","i","o","n"," ","(">>

TranslationClose ==
    <<")",":"," ">>

SummaryPrefix ==
    <<"S","u","m","m","a","r","y",":"," ">>

Ellipsis ==
    <<"U+2026">>

WritingIntro ==
    <<"H","e","r","e"," ","i","s"," ","a"," ","p","o","l","i","s","h","e","d"," ","d","r","a","f","t",
      " ","b","a","s","e","d"," ","o","n"," ","y","o","u","r"," ","r","e","q","u","e","s","t",":",
      "\n","\n","T","i","t","l","e",":"," ">>

WritingBody ==
    <<"\n","\n","P","a","r","a","g","r","a","p","h"," ","1",":"," ","A"," ","c","l","e","a","r"," ",
      "i","n","t","r","o","d","u","c","t","i","o","n"," ","t","h","a","t"," ","f","r","a","m","e","s",
      " ","t","h","e"," ","g","o","a","l"," ","a","n","d"," ","c","o","n","t","e","x","t",".","\n",
      "\n","P","a","r","a","g","r","a","p","h"," ","2",":"," ","K","e","y"," ","i","n","s","i","g",
      "h","t","s",","," ","s","t","r","u","c","t","u","r","e",","," ","a","n","d"," ","s","u","p","p",
      "o","r","t","i","n","g"," ","d","e","t","a","i","l","s"," ","w","i","t","h"," ","a"," ","s","m",
      "o","o","t","h"," ","n","a","r","r","a","t","i","v","e",".","\n","\n","P","a","r","a","g","r",
      "a","p","h"," ","3",":"," ","A"," ","s","u","c","c","i","n","c","t"," ","w","r","a","p",
      "U+2011","u","p"," ","w","i","t","h"," ","n","e","x","t"," ","s","t","e","p","s"," ","a","n",
      "d"," ","a"," ","s","t","r","o","n","g"," ","c","l","o","s","i","n","g",".">>

AnswerPrefix ==
    <<"A","n","s","w","e","r",":"," ">>

AnswerKeyPoints ==
    <<"\n","\n","K","e","y"," ","p","o","i","n","t","s",":","\n","-"," ","D","i","r","e","c","t"," ",
      "a","n","s","w","e","r","\n","-"," ","E","x","t","r","a"," ","c","o","n","t","e","x","t","\n",
      "-"," ","P","r","a","c","t","i","c","a","l"," ","t","i","p">>

\* The glossary: key -> language -> text.
TranslationKeys == {KeyHello, KeyHowAreYou}

TranslationLanguages(key) == {"ur", "hi"}

Translations(key, language) ==
    CASE key = KeyHello /\ language = "ur" -> HelloUr
      [] key = KeyHello /\ language = "hi" -> HelloHi
      [] key = KeyHowAreYou /\ language = "ur" -> HowAreYouUr
      [] key = KeyHowAreYou /\ language = "hi" -> HowAreYouHi

\* The glossary looked up with the prompt as typed, not lower-cased.
TranslationReplyCaseSensitive(base, language) ==
    LET key == base
    IN  IF key \in TranslationKeys /\ language \in TranslationLanguages(key)
        THEN TranslationOpen \o LanguageText(language) \o TranslationClose
                 \o Translations(key, language)
        ELSE TranslationOpen \o LanguageText(language) \o TranslationClose \o base

TranslationReply(base, language) ==
    LET key == Lower(base)
    IN  IF key \in TranslationKeys /\ language \in TranslationLanguages(key)
        THEN TranslationOpen \o LanguageText(language) \o TranslationClose
                 \o Translations(key, language)
        ELSE TranslationOpen \o LanguageText(language) \o TranslationClose \o base

\* The word limit compared with >= instead of >.
SummaryReplyOffByOne(base) ==
    LET words == Split(base)
        summary == IF Len(words) >= SummaryLimit
                   THEN Join(SubSeq(words, 1, SummaryLimit), <<" ">>) \o Ellipsis
                   ELSE base
    IN  SummaryPrefix \o summary

SummaryReply(base) ==
    LET words == Split(base)
        summary == IF Len(words) > SummaryLimit
                   THEN Join(SubSeq(words, 1, SummaryLimit), <<" ">>) \o Ellipsis
                   ELSE base
    IN  SummaryPrefix \o summary

WritingReply(base) ==
    WritingIntro \o Prefix(base, WritingTitleLimit) \o WritingBody

AnswerReply(base) == AnswerPrefix \o base \o AnswerKeyPoints

GenerateReply(prompt, mode, language) ==
    LET base == Strip(prompt)
    IN  IF mode = "translation" THEN TranslationReply(base, language)
        ELSE IF mode = "summary" THEN SummaryReply(base)
        ELSE IF mode = "writing" THEN WritingReply(base)
        ELSE AnswerReply(base)

(***************************************************************************)
(* _smart_suggestions                                                      *)
(***************************************************************************)
Bank(mode) ==
    CASE mode = "qa" -> <<"Explain in simple terms", "Give key takeaways", "Add examples">>
      [] mode = "writing" -> <<"Draft an outline", "Expand to 1000 words", "Refine tone">>
      [] mode = "translation" -> <<"Detect language", "Back-translate", "Transliterate">>
      [] mode = "summary" -> <<"Bullet summary", "TL;DR", "Action items">>
      [] mode = "student" ->
            <<"Create study notes", "Make quiz questions", "Explain like I'm 12">>
      [] mode = "professional" ->
            <<"Make an executive summary", "Draft an email", "Create a plan">>
      [] mode = "fun" -> <<"Tell a pun", "Make it playful", "Add emojis">>
      [] OTHER -> <<"Explain in simple terms", "Give key takeaways", "Add examples">>

SmartSuggestions(mode) == Prefix(Bank(mode), SuggestionLimit)

(***************************************************************************)
(* Inputs.                                                                 *)
(***************************************************************************)
Letter(i) == LowerLetters[((i - 1) % Len(LowerLetters)) + 1]

\* k characters without whitespace: abc...zabc...
Run(k) == [i \in 1..k |-> Letter(i)]

\* n one-letter words (a, b, c, ...) separated by sep.
Words(n, sep) == Join([i \in 1..n |-> <<Letter(i)>>], sep)

Pads == {<<>>, <<" ">>, <<"\n", "\t">>}

Separators == {<<" ">>, <<" ", "\n">>}

WordPrompts ==
    {lead \o Words(n, sep) \o trail :
        n \in 0..MaxWords, sep \in Separators, lead \in {<<>>, <<" ">>}, trail \in {<<>>, <<"\n", "\t">>}}

RunPrompts == {Run(k) : k \in 0..MaxRun}

Phrases ==
    { <<"h","e","l","l","o">>,
      <<"H","E","L","L","O">>,
      <<"H","e","l","l","o">>,
      <<"h","e","l","l","o","!">>,
      <<"h","o","w"," ","a","r","e"," ","y","o","u">>,
      <<"H","o","w"," ","A","r","e"," ","Y","o","u">>,
      <<"H","O","W"," ","A","R","E"," ","Y","O","U">>,
      <<"h","o","w"," "," ","a","r","e"," ","y","o","u">>,
      <<"h","o","w">>,
      <<"U+0633","U+0644","U+0627","U+0645">> }

PhrasePrompts == {lead \o p \o trail : p \in Phrases, lead \in Pads, trail \in Pads}

Prompts == WordPrompts \cup RunPrompts \cup PhrasePrompts

(***************************************************************************)
(* The collections, the calls and the histories when nothing has run.      *)
(***************************************************************************)
NoCall == [pc |-> "idle", req |-> None, session_id |-> None, reply_text |-> None,
           response |-> None, error |-> None]

StoreIdle ==
    /\ chatsession = <<>>
    /\ chatmessage = <<>>
    /\ imagerequest = <<>>
    /\ log = [chatsession |-> <<>>, chatmessage |-> <<>>, imagerequest |-> <<>>]

CallsIdle == calls = [c \in 1..MaxCalls |-> NoCall]

NoText == [step |-> "off", prompt |-> <<>>, mode |-> "qa", language |-> "en",
           core |-> <<>>, wrapped |-> <<>>]

NoImage == <<>>

(***************************************************************************)
(* TextSpec: _generate_reply and _tone_wrap applied to one input, as       *)
(* chat() applies them (main.py lines 135-136), and _tone_wrap applied to  *)
(* the input text directly.                                                *)
(***************************************************************************)
TextInit ==
    /\ StoreIdle
    /\ CallsIdle
    /\ img = NoImage
    /\ \E p \in Prompts, m \in Modes, l \in Languages :
          text = [step |-> "input", prompt |-> p, mode |-> m, language |-> l,
                  core |-> <<>>, wrapped |-> <<>>]

TextGenerate ==
    /\ text.step = "input"
    /\ text' = [text EXCEPT !.step = "generated",
                            !.core = GenerateReply(text.prompt, text.mode, text.language)]
    /\ UNCHANGED <<chatsession, chatmessage, imagerequest, calls, log, img>>

TextWrap ==
    /\ text.step = "generated"
    /\ text' = [text EXCEPT !.step = "wrapped",
                            !.wrapped = ToneWrap(text.core, text.mode)]
    /\ UNCHANGED <<chatsession, chatmessage, imagerequest, calls, log, img>>

TextWrapInput ==
    /\ text.step = "input"
    /\ text' = [text EXCEPT !.step = "wrapped_input",
                            !.wrapped = ToneWrap(text.prompt, text.mode)]
    /\ UNCHANGED <<chatsession, chatmessage, imagerequest, calls, log, img>>

TextNext == TextGenerate \/ TextWrap \/ TextWrapInput

TextSpec == TextInit /\ [][TextNext]_vars

(***************************************************************************)
(* The document store (database.create_document): it appends the document  *)
(* to the collection and returns the id it assigned, or raises.            *)
(***************************************************************************)
\* The id of the n-th document of a collection; ids are never reused.
ObjectId(name, n) == name \o "-" \o ToString(n)

NewId(name, collection) == ObjectId(name, Len(collection) + 1)

CreateDocument(name, collection, document) ==
    Append(collection, document @@ [_id |-> NewId(name, collection)])

(***************************************************************************)
(* chat(): the documents it builds and the response it returns.            *)
(***************************************************************************)
\* datetime.utcnow() as the handler reads it.
Clock == {"09:00"}

\* f"Chat - {HH:MM}" (the source writes an en dash).
SessionTitle(t) == "Chat - " \o t

SessionDoc(req, t) == [title |-> SessionTitle(t), mode |-> OrElse(req.mode, "qa")]

\* The user message filed under the session id of the request, not the effective one.
UserMsgRequestSession(call) ==
    [session_id |-> OrElse(call.req.session_id, ""), role |-> "user",
     content |-> call.req.message, mode |-> call.req.mode, meta |-> None]

UserMsg(call) ==
    [session_id |-> call.session_id[1], role |-> "user",
     content |-> call.req.message, mode |-> call.req.mode, meta |-> None]

ReplyText(req) ==
    ToneWrap(GenerateReply(req.message, OrElse(req.mode, "qa"), OrElse(req.language, "en")),
             OrElse(req.mode, "qa"))

AssistantMsg(call, reply_text) ==
    [session_id |-> call.session_id[1], role |-> "assistant",
     content |-> reply_text, mode |-> call.req.mode, meta |-> None]

Response(call, t) ==
    [session_id |-> call.session_id[1],
     reply |-> call.reply_text[1],
     suggestions |-> SmartSuggestions(OrElse(call.req.mode, "qa")),
     mode |-> OrElse(call.req.mode, "qa"),
     created_at |-> t]

\* A new session for every call, whether or not the request names one.
NeedsSessionAlways(req) == TRUE

\* "if not session_id" (line 125)
NeedsSession(req) == Falsy(req.session_id)

\* The assistant message stored before the user message.
SuccessorReplyFirst(pc) ==
    CASE pc = "ensure_session" -> "store_assistant"
      [] pc = "store_assistant" -> "store_user"
      [] pc = "store_user" -> "return"

\* The order of the statements of chat().
Successor(pc) ==
    CASE pc = "ensure_session" -> "store_user"
      [] pc = "store_user" -> "store_assistant"
      [] pc = "store_assistant" -> "return"

\* The exception swallowed, as image() does, and the handler carrying on.
RaiseSwallowed(call) == [call EXCEPT !.pc = Successor(call.pc), !.error = Some(call.pc)]

\* create_document raises: chat() has no handler, the exception leaves the call.
Raise(call) == [call EXCEPT !.pc = "failed", !.error = Some(call.pc)]

(***************************************************************************)
(* Spec: chat calls, run concurrently, one store operation per step.       *)
(* Spec states no fairness: a call may stop for good after any step, which *)
(* is what a worker that crashes between two steps does.                   *)
(***************************************************************************)
ChatMessages == { <<" ","H","e","l","l","o","\n">> }

ChatModes == {None, Some("fun")}

ChatLanguages == {Some("hi")}

\* The session ids a client sends: none, the empty string, the id of a stored session.
SessionIds ==
    {None, Some("")} \cup {Some(chatsession[i]._id) : i \in DOMAIN chatsession}

ChatRequests ==
    [message : ChatMessages, session_id : SessionIds, mode : ChatModes,
     language : ChatLanguages]

Init ==
    /\ StoreIdle
    /\ CallsIdle
    /\ text = NoText
    /\ img = NoImage

\* Lines 122-125: the request arrives; calls are numbered in arrival order.
ChatBegin(c) ==
    /\ calls[c].pc = "idle"
    /\ IF c = 1 THEN TRUE ELSE calls[c - 1].pc # "idle"
    /\ \E req \in ChatRequests :
          calls' = [calls EXCEPT ![c] =
                       [NoCall EXCEPT !.req = req,
                                      !.session_id = req.session_id,
                                      !.pc = IF NeedsSession(req) THEN "ensure_session"
                                             ELSE Successor("ensure_session")]]
    /\ UNCHANGED <<chatsession, chatmessage, imagerequest, log, text, img>>

\* Lines 126-128
ChatCreateSession(c) ==
    /\ calls[c].pc = "ensure_session"
    /\ \E t \in Clock :
          chatsession' = CreateDocument("chatsession", chatsession,
                                        SessionDoc(calls[c].req, t))
    /\ log' = [log EXCEPT !.chatsession = Append(@, c)]
    /\ calls' = [calls EXCEPT ![c].session_id = Some(NewId("chatsession", chatsession)),
                              ![c].pc = Successor(calls[c].pc)]
    /\ UNCHANGED <<chatmessage, imagerequest, text, img>>

\* Lines 130-132
ChatStoreUser(c) ==
    /\ calls[c].pc = "store_user"
    /\ chatmessage' = CreateDocument("chatmessage", chatmessage, UserMsg(calls[c]))
    /\ log' = [log EXCEPT !.chatmessage = Append(@, c)]
    /\ calls' = [calls EXCEPT ![c].pc = Successor(calls[c].pc)]
    /\ UNCHANGED <<chatsession, imagerequest, text, img>>

\* Lines 135-140
ChatStoreAssistant(c) ==
    /\ calls[c].pc = "store_assistant"
    /\ LET reply_text == ReplyText(calls[c].req)
       IN  /\ chatmessage' = CreateDocument("chatmessage", chatmessage,
                                            AssistantMsg(calls[c], reply_text))
           /\ calls' = [calls EXCEPT ![c].reply_text = Some(reply_text),
                                     ![c].pc = Successor(calls[c].pc)]
    /\ log' = [log EXCEPT !.chatmessage = Append(@, c)]
    /\ UNCHANGED <<chatsession, imagerequest, text, img>>

\* Lines 142-148
ChatReturn(c) ==
    /\ calls[c].pc = "return"
    /\ \E t \in Clock :
          calls' = [calls EXCEPT ![c].response = Some(Response(calls[c], t)),
                                 ![c].pc = "done"]
    /\ UNCHANGED <<chatsession, chatmessage, imagerequest, log, text, img>>

\* Lines 128, 132, 140: the insert raises.
ChatInsertFails(c) ==
    /\ calls[c].pc \in {"ensure_session", "store_user", "store_assistant"}
    /\ calls' = [calls EXCEPT ![c] = Raise(calls[c])]
    /\ UNCHANGED <<chatsession, chatmessage, imagerequest, log, text, img>>

Next ==
    \E c \in 1..MaxCalls :
        \/ ChatBegin(c)
        \/ ChatCreateSession(c)
        \/ ChatStoreUser(c)
        \/ ChatStoreAssistant(c)
        \/ ChatReturn(c)
        \/ ChatInsertFails(c)

Spec == Init /\ [][Next]_vars

(***************************************************************************)
(* image(): the title, the SVG markup, its UTF-8 bytes and their base64    *)
(* text.                                                                   *)
(***************************************************************************)
Printable ==
    <<" ","!","\"","#","$","%","&","'","(",")","*","+",",","-",".","/","0","1","2","3","4","5","6",
      "7","8","9",":",";","<","=",">","?","@","A","B","C","D","E","F","G","H","I","J","K","L","M","N",
      "O","P","Q","R","S","T","U","V","W","X","Y","Z","[","\\","]","^","_","U+0060","a","b","c","d","e",
      "f","g","h","i","j","k","l","m","n","o","p","q","r","s","t","u","v","w","x","y","z","{","|","}",
      "~">>

\* ord(c): printable ASCII by position (the grave accent is written "U+0060"),
\* the control characters and the
\* characters outside ASCII that the model uses, by table.
CodePoint(c) ==
    CASE c = "\t" -> 9
      [] c = "\n" -> 10
      [] c = "\r" -> 13
      [] c = "U+00B7" -> 183
      [] c = "U+00E9" -> 233
      [] c = "U+2026" -> 8230
      [] OTHER -> 31 + (CHOOSE i \in 1..Len(Printable) : Printable[i] = c)

\* Concatenation of a sequence of sequences.
RECURSIVE Concat(_)
Concat(parts) ==
    IF parts = <<>> THEN <<>>
    ELSE IF Len(parts) = 1 THEN parts[1]
    ELSE LET h == Len(parts) \div 2
         IN  Concat(SubSeq(parts, 1, h)) \o Concat(SubSeq(parts, h + 1, Len(parts)))

\* One code point as UTF-8 bytes (code points below 2^16).
Utf8Bytes(n) ==
    IF n < 128 THEN <<n>>
    ELSE IF n < 2048 THEN <<192 + (n \div 64), 128 + (n % 64)>>
    ELSE <<224 + (n \div 4096), 128 + ((n \div 64) % 64), 128 + (n % 64)>>

\* str.encode("utf-8")
Utf8Encode(s) == Concat([i \in 1..Len(s) |-> Utf8Bytes(CodePoint(s[i]))])

B64Alphabet ==
    <<"A","B","C","D","E","F","G","H","I","J","K","L","M","N","O","P","Q","R","S","T","U","V","W","X",
      "Y","Z","a","b","c","d","e","f","g","h","i","j","k","l","m","n","o","p","q","r","s","t","u","v",
      "w","x","y","z","0","1","2","3","4","5","6","7","8","9","+","/">>

\* base64.b64encode: three bytes become four characters, "=" pads the last group.
B64Encode(b) ==
    LET n == Len(b)
        byte(i) == IF i <= n THEN b[i] ELSE 0
        group(g) == byte(3 * g + 1) * 65536 + byte(3 * g + 2) * 256 + byte(3 * g + 3)
        sextet(v, j) ==
            CASE j = 0 -> v \div 262144
              [] j = 1 -> (v \div 4096) % 64
              [] j = 2 -> (v \div 64) % 64
              [] j = 3 -> v % 64
        char(k) ==
            LET g == (k - 1) \div 4
                j == (k - 1) % 4
            IN  IF j >= 2 /\ 3 * g + j > n THEN "="
                ELSE B64Alphabet[sextet(group(g), j) + 1]
    IN  [k \in 1..(4 * ((n + 2) \div 3)) |-> char(k)]

DefaultImagePrompt ==
    <<"S","h","a","h","b","a","z"," ","A","I">>

\* The markup before and after the title.  It is fixed text; the model keeps
\* the opening tag, the two text elements and the closing tag, and leaves
\* out the attributes and the decoration between them.
SvgOpen ==
    <<"<","s","v","g"," ","x","m","l","n","s","=","\"","h","t","t","p",":","/","/","w","w","w",".",
      "w","3",".","o","r","g","/","2","0","0","0","/","s","v","g","\"",">","<","t","e","x","t",">">>

SvgClose ==
    <<"<","/","t","e","x","t",">","<","t","e","x","t",">","S","h","a","h","b","a","z"," ","A","I"," ",
      "U+00B7"," ","B","l","u","e","F","l","a","m","e","<","/","t","e","x","t",">","<","/","s","v",
      "g",">">>

DataUriPrefix ==
    <<"d","a","t","a",":","i","m","a","g","e","/","s","v","g","+","x","m","l",";","b","a","s","e","6",
      "4",",">>

\* The title cut from the prompt as sent, before stripping.
ImageTitleUnstripped(prompt) ==
    Prefix(IF prompt = <<>> THEN DefaultImagePrompt ELSE prompt, ImageTitleLimit)

\* Lines 173-174: (req.prompt or "Shahbaz AI").strip()[:80]
ImageTitle(prompt) ==
    Prefix(Strip(IF prompt = <<>> THEN DefaultImagePrompt ELSE prompt), ImageTitleLimit)

Svg(title) == SvgOpen \o title \o SvgClose

DataUri(svg) == DataUriPrefix \o B64Encode(Utf8Encode(svg))

ImageRequestDoc(req) == [prompt |-> req.prompt, style |-> req.style]

\* The insert's exception leaving image(), as it leaves chat().
AuditFailurePropagates(data_uri) == None

\* Lines 200-206: "except Exception: pass", then the return.
AuditFailureSwallowed(data_uri) == Some([image |-> data_uri])

(***************************************************************************)
(* ImageSpec: image calls, each one the whole handler, with the audit-log  *)
(* insert succeeding or raising.                                           *)
(***************************************************************************)
\* k characters without whitespace, every ninth one outside ASCII.
ImageText(k) == [i \in 1..k |-> IF i % 9 = 0 THEN "U+00E9" ELSE Letter(i)]

ImageLengths == {0, 1, 2} \cup ((ImageTitleLimit - 1)..MaxRun)

ImagePrompts ==
    {lead \o ImageText(k) \o trail :
        k \in ImageLengths, lead \in {<<>>, <<" ">>}, trail \in {<<>>, <<"\n", "\t">>}}

ImageStyles == {None, Some("neon")}

ImageRequests == [prompt : ImagePrompts, style : ImageStyles]

ImageInit ==
    /\ StoreIdle
    /\ CallsIdle
    /\ text = NoText
    /\ img = NoImage

Outcome(req, logged, response) == [req |-> req, logged |-> logged, response |-> response]

\* Lines 171-206, the insert succeeds.
ImageLogged ==
    /\ Len(img) < MaxImageCalls
    /\ \E req \in ImageRequests :
          LET data_uri == DataUri(Svg(ImageTitle(req.prompt)))
          IN  /\ imagerequest' = CreateDocument("imagerequest", imagerequest,
                                                ImageRequestDoc(req))
              /\ log' = [log EXCEPT !.imagerequest = Append(@, Len(img) + 1)]
              /\ img' = Append(img, Outcome(req, TRUE, Some([image |-> data_uri])))
    /\ UNCHANGED <<chatsession, chatmessage, calls, text>>

\* Lines 171-206, the insert raises.
ImageLogFails ==
    /\ Len(img) < MaxImageCalls
    /\ \E req \in ImageRequests :
          LET data_uri == DataUri(Svg(ImageTitle(req.prompt)))
          IN  img' = Append(img, Outcome(req, FALSE, AuditFailureSwallowed(data_uri)))
    /\ UNCHANGED <<chatsession, chatmessage, imagerequest, calls, log, text>>

ImageNext == ImageLogged \/ ImageLogFails

ImageSpec == ImageInit /\ [][ImageNext]_vars

(***************************************************************************)
(* Properties.                                                             *)
(***************************************************************************)
StartsWith(s, p) == Len(p) <= Len(s) /\ SubSeq(s, 1, Len(p)) = p

EndsWith(s, p) == Len(p) <= Len(s) /\ SubSeq(s, Len(s) - Len(p) + 1, Len(s)) = p

\* s without its leading and trailing whitespace, stated by counting it.
Trimmed(s) ==
    LET lead == CHOOSE a \in 0..Len(s) :
                    /\ \A i \in 1..a : s[i] \in Whitespace
                    /\ a = Len(s) \/ s[a + 1] \notin Whitespace
        trail == CHOOSE b \in 0..Len(s) :
                    /\ \A i \in (Len(s) - b + 1)..Len(s) : s[i] \in Whitespace
                    /\ b = Len(s) \/ s[Len(s) - b] \notin Whitespace
    IN  IF lead = Len(s) THEN <<>> ELSE SubSeq(s, lead + 1, Len(s) - trail)

\* The number of whitespace-delimited words of s.
WordCount(s) ==
    Cardinality({i \in 1..Len(s) :
                    s[i] \notin Whitespace /\ (i = 1 \/ s[i - 1] \in Whitespace)})

\* The text the tone wrapper was given.
Wrapped == text.step \in {"wrapped", "wrapped_input"}

WrappedText == IF text.step = "wrapped" THEN text.core ELSE text.prompt

Generated == text.step \in {"generated", "wrapped"}

\* The documents a chat call inserted, by position in their collection.
MsgIdx(c) == {i \in DOMAIN chatmessage : log.chatmessage[i] = c}

SessIdx(c) == {i \in DOMAIN chatsession : log.chatsession[i] = c}

Done(c) == calls[c].pc = "done"

Began(c) == calls[c].pc # "idle"

\* chr(n), for the code points CodePoint gives.
Chr(n) ==
    IF 32 <= n /\ n <= 126 THEN Printable[n - 31]
    ELSE CASE n = 9 -> "\t"
           [] n = 10 -> "\n"
           [] n = 13 -> "\r"
           [] n = 183 -> "U+00B7"
           [] n = 233 -> "U+00E9"
           [] n = 8230 -> "U+2026"

\* base64.b64decode, as a client applies it to the payload.
B64Decode(s) ==
    LET value(c) == IF c = "=" THEN 0
                    ELSE (CHOOSE i \in 1..Len(B64Alphabet) : B64Alphabet[i] = c) - 1
        pads == Cardinality({i \in 1..Len(s) : s[i] = "="})
        group(g) == value(s[4 * g + 1]) * 262144 + value(s[4 * g + 2]) * 4096
                        + value(s[4 * g + 3]) * 64 + value(s[4 * g + 4])
        byte(k) ==
            LET g == (k - 1) \div 3
                j == (k - 1) % 3
            IN  CASE j = 0 -> group(g) \div 65536
                  [] j = 1 -> (group(g) \div 256) % 256
                  [] j = 2 -> group(g) % 256
    IN  [k \in 1..(3 * (Len(s) \div 4) - pads) |-> byte(k)]

\* bytes.decode("utf-8"): a character starts at every byte that is not a
\* continuation byte (10xxxxxx).
Utf8Decode(b) ==
    LET point(i) ==
            IF b[i] < 128 THEN b[i]
            ELSE IF b[i] < 224 THEN (b[i] - 192) * 64 + (b[i + 1] - 128)
            ELSE (b[i] - 224) * 4096 + (b[i + 1] - 128) * 64 + (b[i + 2] - 128)
        at == [i \in 1..Len(b) |->
                  IF 128 <= b[i] /\ b[i] < 192 THEN "" ELSE Chr(point(i))]
    IN  SelectSeq(at, LAMBDA c : c # "")

\* What a client reads back from the data URI: the markup, and the title in it.
DecodedSvg(image) ==
    Utf8Decode(B64Decode(SubSeq(image, Len(DataUriPrefix) + 1, Len(image))))

TitleIn(svg) == SubSeq(svg, Len(SvgOpen) + 1, Len(svg) - Len(SvgClose))

WellFormed(image, svg) ==
    /\ StartsWith(image, DataUriPrefix)
    /\ Len(svg) >= Len(SvgOpen) + Len(SvgClose)
    /\ StartsWith(svg, SvgOpen)
    /\ EndsWith(svg, SvgClose)

\* C1: every chat call that has returned inserted exactly two chatmessage
\* documents, the role=user one before the role=assistant one, and both
\* carry the session id of the call's response.
ChatStoresUserThenAssistant ==
    \A c \in 1..MaxCalls :
        Done(c) =>
            /\ Cardinality(MsgIdx(c)) = 2
            /\ \E i, j \in MsgIdx(c) :
                  /\ i < j
                  /\ chatmessage[i].role = "user"
                  /\ chatmessage[j].role = "assistant"
                  /\ chatmessage[i].session_id = calls[c].response[1].session_id
                  /\ chatmessage[j].session_id = calls[c].response[1].session_id

\* A call that came without a session id has returned, after a message of
\* another call was stored.
ChatStoresUserThenAssistantWitness ==
    \E c \in 1..MaxCalls :
        /\ Done(c)
        /\ Falsy(calls[c].req.session_id)
        /\ Len(chatmessage) > 2

\* The per-call half of C2: a returned call without a session id inserted
\* exactly one session and returns its id; a returned call with a session id
\* inserted none and returns the id it was given.
SessionPerCall ==
    \A c \in 1..MaxCalls :
        Done(c) =>
            IF Falsy(calls[c].req.session_id)
            THEN /\ Cardinality(SessIdx(c)) = 1
                 /\ \A i \in SessIdx(c) :
                       calls[c].response[1].session_id = chatsession[i]._id
            ELSE /\ SessIdx(c) = {}
                 /\ calls[c].response[1].session_id = calls[c].req.session_id[1]

SessionInsertSucceeded(c) ==
    /\ Began(c)
    /\ Falsy(calls[c].req.session_id)
    /\ calls[c].pc # "ensure_session"
    /\ calls[c].error # Some("ensure_session")

\* C2 as amended: SessionPerCall, the ids of the sessions are distinct, and
\* the number of sessions in the store equals the number of calls made
\* without a session id whose session insert succeeded.
SessionCreatedOncePerConversation ==
    /\ SessionPerCall
    /\ \A i, j \in DOMAIN chatsession : chatsession[i]._id = chatsession[j]._id => i = j
    /\ Len(chatsession) = Cardinality({c \in 1..MaxCalls : SessionInsertSucceeded(c)})

\* C2 as stated: SessionPerCall, and once no call is in flight the number of
\* sessions equals the number of calls made without a session id.
SessionsEqualCallsWithoutSessionId ==
    /\ SessionPerCall
    /\ (\A c \in 1..MaxCalls : calls[c].pc \in {"idle", "done", "failed"}) =>
          Len(chatsession) =
              Cardinality({c \in 1..MaxCalls : Began(c) /\ Falsy(calls[c].req.session_id)})

\* A call without a session id returned an id, and a later call made with
\* that id has returned it too: one session in the store.
SessionCreatedOncePerConversationWitness ==
    \E c, d \in 1..MaxCalls :
        /\ c < d
        /\ Done(c) /\ Done(d)
        /\ Falsy(calls[c].req.session_id)
        /\ calls[d].req.session_id = Some(calls[c].response[1].session_id)
        /\ calls[d].response[1].session_id = calls[c].response[1].session_id
        /\ Len(chatsession) = 1

\* What a call has in the store when its insert at `stage` raised.
FailedCallLeft(c, stage) ==
    /\ Cardinality(SessIdx(c)) =
          (IF Falsy(calls[c].req.session_id) /\ stage # "ensure_session" THEN 1 ELSE 0)
    /\ IF stage = "store_assistant"
       THEN /\ Cardinality(MsgIdx(c)) = 1
            /\ \A i \in MsgIdx(c) : chatmessage[i].role = "user"
       ELSE MsgIdx(c) = {}

IsPrefixOf(s, t) == Len(s) <= Len(t) /\ SubSeq(t, 1, Len(s)) = s

\* C3: when an insert of chat() raises, the call ends failed with no
\* response, what it had inserted before (a new session, the user message)
\* is in the store; from then on the call takes no step (no retry, no late
\* reply) and no document leaves the store.
InsertFailurePropagates ==
    /\ [](\A c \in 1..MaxCalls :
             calls[c].error # None =>
                 /\ calls[c].pc = "failed"
                 /\ calls[c].response = None
                 /\ FailedCallLeft(c, calls[c].error[1]))
    /\ [][/\ \A c \in 1..MaxCalls : calls[c].error # None => calls'[c] = calls[c]
          /\ IsPrefixOf(chatsession, chatsession')
          /\ IsPrefixOf(chatmessage, chatmessage')]_vars

\* The assistant insert of a call that created its session has raised: the
\* session and the user message are in the store, and another call has run on.
InsertFailurePropagatesWitness ==
    \E c, d \in 1..MaxCalls :
        /\ calls[c].error = Some("store_assistant")
        /\ Falsy(calls[c].req.session_id)
        /\ SessIdx(c) # {} /\ MsgIdx(c) # {}
        /\ c # d /\ Done(d)

\* C9: both messages a returned chat call stored carry the active mode, the
\* mode of the response, also when the request's mode is null.
StoredModeIsActiveMode ==
    \A c \in 1..MaxCalls :
        Done(c) =>
            \A i \in MsgIdx(c) : chatmessage[i].mode = Some(calls[c].response[1].mode)

SessionsOfMessages == {chatmessage[i].session_id : i \in DOMAIN chatmessage}

RoleCount(sid, role) ==
    Cardinality({i \in DOMAIN chatmessage :
                    chatmessage[i].session_id = sid /\ chatmessage[i].role = role})

\* C10: in every reachable state, whatever the interleaving and wherever
\* calls stopped or failed, each stored assistant message comes after the
\* user message of the same call, no session has more assistant than user
\* messages, and a call has stored nothing, its user message, or its user
\* message and then its assistant message.
AssistantFollowsItsUserMessage ==
    /\ \A i \in DOMAIN chatmessage :
          chatmessage[i].role = "assistant" =>
              \E j \in 1..(i - 1) :
                  /\ log.chatmessage[j] = log.chatmessage[i]
                  /\ chatmessage[j].role = "user"
                  /\ chatmessage[j].session_id = chatmessage[i].session_id
    /\ \A sid \in SessionsOfMessages : RoleCount(sid, "assistant") <= RoleCount(sid, "user")
    /\ \A c \in 1..MaxCalls :
          \/ MsgIdx(c) = {}
          \/ \E i \in MsgIdx(c) : MsgIdx(c) = {i} /\ chatmessage[i].role = "user"
          \/ \E i, j \in MsgIdx(c) :
                /\ i < j /\ MsgIdx(c) = {i, j}
                /\ chatmessage[i].role = "user" /\ chatmessage[j].role = "assistant"

\* Two calls on one session id interleave their writes (user, user,
\* assistant) and one of them failed after its user message.
AssistantFollowsItsUserMessageWitness ==
    /\ Len(chatmessage) = 3
    /\ chatmessage[1].session_id = chatmessage[2].session_id
    /\ chatmessage[2].session_id = chatmessage[3].session_id
    /\ log.chatmessage[1] # log.chatmessage[2]
    /\ chatmessage[3].role = "assistant"
    /\ \E c \in 1..MaxCalls : calls[c].error = Some("store_assistant")

\* C4: every image call returns a data URI, also when the audit-log insert
\* raised, and then it is the data URI of the title in the markup, the one
\* any call with the same prompt returns; only the calls whose insert
\* succeeded left a document in imagerequest.
ImageSurvivesAuditFailure ==
    /\ \A k \in DOMAIN img :
          /\ img[k].response # None
          /\ StartsWith(img[k].response[1].image, DataUriPrefix)
          /\ ~img[k].logged =>
                img[k].response[1].image = DataUri(Svg(ImageTitle(img[k].req.prompt)))
          /\ \A m \in DOMAIN img :
                img[m].req.prompt = img[k].req.prompt => img[m].response = img[k].response
    /\ log.imagerequest = SelectSeq([k \in DOMAIN img |-> IF img[k].logged THEN k ELSE 0],
                                    LAMBDA k : k # 0)
    /\ Len(imagerequest) = Len(log.imagerequest)

\* An image call whose audit-log insert raised has returned its data URI.
ImageSurvivesAuditFailureWitness ==
    \E k \in DOMAIN img :
        /\ ~img[k].logged
        /\ img[k].response # None
        /\ Len(img[k].req.prompt) > ImageTitleLimit
        /\ Len(imagerequest) < Len(img)

ImageSource(prompt) == IF prompt = <<>> THEN DefaultImagePrompt ELSE Trimmed(prompt)

\* C8 as amended: every image call returns a well-formed payload whose
\* decoded title is taken from the prompt trimmed of surrounding
\* whitespace, or from "Shahbaz AI" when the prompt is empty: that text
\* when it has at most 80 characters, its first 80 characters otherwise.
ImageTitleIsTrimmedPromptOrDefault ==
    \A k \in DOMAIN img :
        /\ img[k].response # None
        /\ LET svg == DecodedSvg(img[k].response[1].image)
               source == ImageSource(img[k].req.prompt)
           IN  /\ WellFormed(img[k].response[1].image, svg)
               /\ IF Len(source) <= ImageTitleLimit
                  THEN TitleIn(svg) = source
                  ELSE TitleIn(svg) = SubSeq(source, 1, ImageTitleLimit)

\* C8 as stated: the decoded title equals the prompt when it has at most 80
\* characters and its first 80 characters otherwise, the empty prompt included.
ImageTitleIsPromptOrItsPrefix ==
    \A k \in DOMAIN img :
        /\ img[k].response # None
        /\ LET svg == DecodedSvg(img[k].response[1].image)
               prompt == img[k].req.prompt
           IN  /\ WellFormed(img[k].response[1].image, svg)
               /\ IF Len(prompt) <= ImageTitleLimit
                  THEN TitleIn(svg) = prompt
                  ELSE TitleIn(svg) = SubSeq(prompt, 1, ImageTitleLimit)

\* A call with a null style and a padded prompt of more than 80 characters
\* after trimming has returned a title of exactly 80 characters.
ImageTitleIsTrimmedPromptOrDefaultWitness ==
    \E k \in DOMAIN img :
        /\ img[k].req.style = None
        /\ img[k].response # None
        /\ img[k].req.prompt # Trimmed(img[k].req.prompt)
        /\ Len(Trimmed(img[k].req.prompt)) = ImageTitleLimit + 1
        /\ Len(TitleIn(DecodedSvg(img[k].response[1].image))) = ImageTitleLimit

\* C5 as amended: for mode fun the tone wrapper puts the fixed header line
\* before the text and the fixed sign-off line after it.
FunWrapsHeaderTextSignOff ==
    (Wrapped /\ text.mode = "fun") =>
        text.wrapped = FunHeader \o WrappedText \o FunSignOff

\* C5 as stated: for mode fun the wrapped result begins with the original
\* text and is the original text followed by the sign-off.
FunOnlyAppendsSignOff ==
    (Wrapped /\ text.mode = "fun") =>
        /\ StartsWith(text.wrapped, WrappedText)
        /\ text.wrapped = WrappedText \o FunSignOff

\* The tone wrapper has wrapped a non-empty text in mode fun.
FunWrapsHeaderTextSignOffWitness ==
    /\ text.step = "wrapped_input"
    /\ text.mode = "fun"
    /\ text.prompt # <<>>
    /\ Len(text.wrapped) = Len(text.prompt) + Len(FunHeader) + Len(FunSignOff)

TranslationHead(language) == TranslationOpen \o LanguageText(language) \o TranslationClose

\* C6: in translation mode the reply is "Translation (<language>): "
\* followed by the glossary text when the trimmed, lower-cased prompt is
\* "hello" or "how are you" and the language is ur or hi, and by the trimmed
\* prompt in its original case otherwise.
TranslationLooksUpOrEchoes ==
    (Generated /\ text.mode = "translation") =>
        LET trimmed == Trimmed(text.prompt)
            key == Lower(trimmed)
            head == TranslationHead(text.language)
        IN  IF key \in {KeyHello, KeyHowAreYou} /\ text.language \in {"ur", "hi"}
            THEN text.core = head \o
                    (CASE key = KeyHello /\ text.language = "ur" -> HelloUr
                       [] key = KeyHello /\ text.language = "hi" -> HelloHi
                       [] key = KeyHowAreYou /\ text.language = "ur" -> HowAreYouUr
                       [] key = KeyHowAreYou /\ text.language = "hi" -> HowAreYouHi)
            ELSE text.core = head \o trimmed

\* A padded prompt in capitals has been looked up: " HOW ARE YOU" for hi.
TranslationLooksUpOrEchoesWitness ==
    /\ text.step = "generated"
    /\ text.mode = "translation"
    /\ text.language = "hi"
    /\ text.prompt # Trimmed(text.prompt)
    /\ Trimmed(text.prompt) # KeyHowAreYou
    /\ Lower(Trimmed(text.prompt)) = KeyHowAreYou
    /\ text.core = TranslationHead("hi") \o HowAreYouHi

FirstWords(s, n) == Join(SubSeq(Split(s), 1, n), <<" ">>)

\* C7 as amended: in summary mode a prompt of more than 40 words gives
\* "Summary: ", its first 40 words and the ellipsis; a prompt of 40 words or
\* fewer gives "Summary: " and the prompt trimmed of surrounding whitespace.
SummaryKeepsFortyWords ==
    (Generated /\ text.mode = "summary") =>
        IF WordCount(text.prompt) > SummaryLimit
        THEN text.core = SummaryPrefix \o FirstWords(text.prompt, SummaryLimit) \o Ellipsis
        ELSE text.core = SummaryPrefix \o Trimmed(text.prompt)

\* C7 as stated: a prompt of 40 words or fewer gives "Summary: " and the
\* prompt unchanged.
SummaryKeepsPromptUnchanged ==
    (Generated /\ text.mode = "summary") =>
        IF WordCount(text.prompt) > SummaryLimit
        THEN text.core = SummaryPrefix \o FirstWords(text.prompt, SummaryLimit) \o Ellipsis
        ELSE text.core = SummaryPrefix \o text.prompt

\* A prompt of exactly 41 words has been cut to its first 40.
SummaryKeepsFortyWordsWitness ==
    /\ text.step = "generated"
    /\ text.mode = "summary"
    /\ WordCount(text.prompt) = SummaryLimit + 1
    /\ EndsWith(text.core, Ellipsis)
    /\ WordCount(text.core) = SummaryLimit + 1

====
